---- MODULE Spec2Model ----
(***************************************************************************)
(* Model of covid19_datasets: the combined-table pipeline of combined.py   *)
(* (source reconciliation, interventions merge, joins, process-wide cache) *)
(* and the excess-mortality estimator of hmd.py.                           *)
(*                                                                         *)
(* A table (pandas DataFrame) is a sequence of rows; a row is a record.    *)
(* A cell that may be missing is a set: {} is NaN, {v} is the value v.     *)
(***************************************************************************)
EXTENDS Integers, Sequences, FiniteSets, TLC

VARIABLES
    sources,        \* what each external adapter returns when asked now
    Combined_data,  \* the class attribute Combined._data
    builds,         \* number of _create_data() invocations so far
    ctors,          \* number of Combined(...) constructions attempted so far
    forcedLater,    \* constructions after the first that passed force_load=True
    completed,      \* ordinal of the latest _create_data() that returned
    instances,      \* number of Combined(...) constructions that returned
    hmd_data,       \* the class attribute HMDExcessMortality.data (raw table)
    result          \* outcome of the last operation

vars ==
    <<sources, Combined_data, builds, ctors, forcedLater, completed, instances,
      hmd_data, result>>

-----------------------------------------------------------------------------
(* Missing values and generic table helpers.                               *)

NaN == {}

IsNaN(c) == c = {}

ValueOf(c) == CHOOSE v \in c : TRUE

None == [none |-> TRUE]

NoResult == [op |-> "none"]

RECURSIVE Flatten(_)
Flatten(ss) ==
    IF ss = <<>> THEN <<>> ELSE Head(ss) \o Flatten(Tail(ss))

Range(s) == {s[i] : i \in 1..Len(s)}

KeysUnique(T, on) ==
    \A i, j \in 1..Len(T) : (\A k \in on : T[i][k] = T[j][k]) => i = j

(* Variant: how='inner' (the default of merge), which drops the left rows  *)
(* that match nothing.                                                     *)
LeftMergeInner(L, R, on, rcols) ==
    LET matches(l) == SelectSeq(R, LAMBDA r : \A k \in on : r[k] = l[k])
        rowsFor(l) ==
            [j \in 1..Len(matches(l)) |->
                l @@ [c \in rcols |-> matches(l)[j][c]]]
    IN  Flatten([i \in 1..Len(L) |-> rowsFor(L[i])])

(* DataFrame.merge(R, on=on, how='left'): every left row, in left order,  *)
(* once per matching right row, or once with the right columns missing.    *)
LeftMerge(L, R, on, rcols) ==
    LET matches(l) == SelectSeq(R, LAMBDA r : \A k \in on : r[k] = l[k])
        rowsFor(l) ==
            IF matches(l) = <<>>
            THEN << l @@ [c \in rcols |-> NaN] >>
            ELSE [j \in 1..Len(matches(l)) |->
                    l @@ [c \in rcols |-> matches(l)[j][c]]]
    IN  Flatten([i \in 1..Len(L) |-> rowsFor(L[i])])

(* DataFrame.fillna(0) on the value columns cols.                          *)
FillNa0(T, cols) ==
    [i \in 1..Len(T) |->
        [f \in DOMAIN T[i] |->
            IF f \in cols /\ IsNaN(T[i][f]) THEN {0} ELSE T[i][f]]]

(* groupby(level=0).ffill(): within the rows that share the ISO of row i,  *)
(* a missing cell takes the nearest non-missing cell above it in ROW order.*)
GroupFfill(T, cols) ==
    LET prev(i, c) == {j \in 1..(i - 1) :
                          T[j].ISO = T[i].ISO /\ ~IsNaN(T[j][c])}
        last(S) == CHOOSE j \in S : \A k \in S : k <= j
        cell(i, c) ==
            IF ~IsNaN(T[i][c]) THEN T[i][c]
            ELSE IF prev(i, c) = {} THEN NaN
            ELSE T[last(prev(i, c))][c]
    IN  [i \in 1..Len(T) |->
            [f \in DOMAIN T[i] |-> IF f \in cols THEN cell(i, f) ELSE T[i][f]]]

-----------------------------------------------------------------------------
(* combined.py: the interventions reconciler.                              *)

KEY == {"ISO", "DATE"}

PolicyMerged(policy, mask) == LeftMerge(policy, mask, KEY, {"Masks"})

_create_interventions_data(policy, mask) ==
    FillNa0(GroupFfill(PolicyMerged(policy, mask), {"Stringency", "Masks"}),
            {"Stringency", "Masks"})

-----------------------------------------------------------------------------
(* combined.py: the cross-source mortality reconciler.                     *)

_EUROSTATS_EXCLUDE == {"ESP", "PRT", "SWE"}

_ECONOMIST_EXCLUDE == {"AUT", "BEL", "CHE", "DNK", "NOR"}

ISOs(T) == {T[i].ISO : i \in 1..Len(T)}

Raise(err, partial) == [ok |-> FALSE, error |-> err, partial |-> partial]

Return(T) == [ok |-> TRUE, table |-> T]

(* An adapter that cannot fetch its source raises; nothing handles it.     *)
UpstreamUnavailable(adapter) ==
    [type |-> "UpstreamUnavailable", adapter |-> adapter, codes |-> {}]

(* raise ValueError('Found duplicated ISOs ...: ' + intersection)          *)
(* The argument str + set is evaluated first and raises TypeError          *)
(* ("can only concatenate str (not "set") to str"): no ValueError is built *)
(* and the message carries no country code.                                *)
DuplicatedISOsRaised(intersection) ==
    [type |-> "TypeError", adapter |-> "", codes |-> {}]

EconomistFiltered(economist) ==
    SelectSeq(economist, LAMBDA r : r.ISO \notin _ECONOMIST_EXCLUDE)

(* Variant: the SEX/AGE query left out.                                    *)
EurostatsFilteredNoQuery(eurostats) ==
    LET kept == SelectSeq(eurostats, LAMBDA r : r.ISO \notin _EUROSTATS_EXCLUDE)
    IN  [i \in 1..Len(kept) |->
            [ISO |-> kept[i].ISO, DATE |-> kept[i].DATE,
             weekly_excess_deaths |-> kept[i].excess_mortality,
             excess_death_daily_avg |-> kept[i].excess_mortality_daily_average]]

EurostatsFiltered(eurostats) ==
    LET total == SelectSeq(eurostats,
                    LAMBDA r : r.SEX = "Total" /\ r.AGE = "Total")
        kept  == SelectSeq(total, LAMBDA r : r.ISO \notin _EUROSTATS_EXCLUDE)
    IN  [i \in 1..Len(kept) |->
            [ISO |-> kept[i].ISO, DATE |-> kept[i].DATE,
             weekly_excess_deaths |-> kept[i].excess_mortality,
             excess_death_daily_avg |-> kept[i].excess_mortality_daily_average]]

Intersection(economist_data, eurostats_data) ==
    ISOs(eurostats_data) \cap ISOs(economist_data)

_excess_mortality_data(economist, eurostats) ==
    IF ~economist.ok THEN Raise(UpstreamUnavailable("economist"), <<>>)
    ELSE IF ~eurostats.ok THEN Raise(UpstreamUnavailable("eurostats"), <<>>)
    ELSE
        LET economist_data == EconomistFiltered(economist.rows)
            eurostats_data == EurostatsFiltered(eurostats.rows)
            intersection   == Intersection(economist_data, eurostats_data)
        IN  IF intersection # {}
            THEN Raise(DuplicatedISOsRaised(intersection), <<>>)
            ELSE Return(economist_data \o eurostats_data)

-----------------------------------------------------------------------------
(* combined.py: the combined-table orchestrator.                           *)

EXCESS_COLS == {"excess_death_daily_avg", "weekly_excess_deaths"}

_create_data(s) ==
    IF ~s.policy.ok THEN Raise(UpstreamUnavailable("policy"), <<>>)
    ELSE IF ~s.mask.ok THEN Raise(UpstreamUnavailable("mask"), <<>>)
    ELSE
    LET interventions_data ==
            _create_interventions_data(s.policy.rows, s.mask.rows)
    IN
    IF ~s.cases.ok
    THEN Raise(UpstreamUnavailable("cases"), interventions_data)
    ELSE
    LET interventions_cases ==
            FillNa0(LeftMerge(interventions_data, s.cases.rows, KEY,
                              {"new_cases"}),
                    {"Stringency", "Masks", "new_cases"})
    IN
    IF ~s.mobility.ok
    THEN Raise(UpstreamUnavailable("mobility"), interventions_cases)
    ELSE
    LET m1 == LeftMerge(interventions_cases, s.mobility.rows, KEY,
                        {"retail"})
    IN
    IF ~s.age.ok THEN Raise(UpstreamUnavailable("age"), m1)
    ELSE
    LET m2 == LeftMerge(m1, s.age.rows, {"ISO"}, {"median_age"})
    IN
    IF ~s.reference.ok THEN Raise(UpstreamUnavailable("reference"), m2)
    ELSE
    LET m3 == LeftMerge(m2, s.reference.rows, {"ISO"}, {"population"})
        em == _excess_mortality_data(s.economist, s.eurostats)
    IN
    IF ~em.ok THEN Raise(em.error, m3)
    ELSE Return(LeftMerge(m3, em.table, KEY, EXCESS_COLS))

(* Variant: the cache test left out.                                       *)
ShouldBuildForcedOnly(data, force_load) == force_load

(* if Combined._data is None or force_load:                                *)
ShouldBuild(data, force_load) == data = None \/ force_load

(* Variant: the slot assigned stage by stage, so a failed build leaves     *)
(* the table built so far in it.                                           *)
CacheAfterInitEager(data, build, r, id) ==
    IF ~build THEN data
    ELSE [id |-> id, table |-> IF r.ok THEN r.table ELSE r.partial]

(* Combined._data = _create_data(): the slot is assigned only after the    *)
(* call returned; when it raises, the assignment never happens.            *)
CacheAfterInit(data, build, r, id) ==
    IF build /\ r.ok THEN [id |-> id, table |-> r.table] ELSE data

-----------------------------------------------------------------------------
(* hmd.py: the excess-mortality estimator.  The raw table is a set of rows *)
(* [ISO, Sex, Week, Year, D0_14, DTotal]: query, groupby-mean and the      *)
(* index-aligned subtraction do not depend on row order.  A mean or an     *)
(* excess is the exact fraction num/den.                                   *)

CURRENT_YEAR == 2020

REFERENCE_FROM == 2015

DAYS_PER_WEEK == 7

WEEK_START_OFFSET == 6

BFILL_LIMIT == 7

DEATH_COLS == {"D0_14", "DTotal"}

COLUMN_NAMES ==
    [D0_14 |-> "deaths_excess_weekly_age_0_to_14",
     DTotal |-> "deaths_excess_weekly"]

Q(num, den) == {[num |-> num, den |-> den]}

RECURSIVE SumCol(_, _)
SumCol(rows, c) ==
    IF rows = {} THEN 0
    ELSE LET r == CHOOSE x \in rows : TRUE
         IN  r[c] + SumCol(rows \ {r}, c)

StratumWeek(r) == <<r.ISO, r.Sex, r.Week>>

(* Variant: a window that starts one year early.                           *)
ReferenceFrom2014(df) ==
    {r \in df : r.Year < CURRENT_YEAR /\ r.Year >= REFERENCE_FROM - 1}

(* df.query('Year < 2020 and Year >= 2015')                                *)
Reference(df) ==
    {r \in df : r.Year < CURRENT_YEAR /\ r.Year >= REFERENCE_FROM}

(* df.query('Year == 2020')                                                *)
Current(df) == {r \in df : r.Year = CURRENT_YEAR}

(* .groupby(key_cols).mean(): one mean per stratum-week and column         *)
Baseline(df, k, c) ==
    LET rows == {r \in Reference(df) : StratumWeek(r) = k}
    IN  IF rows = {} THEN NaN ELSE Q(SumCol(rows, c), Cardinality(rows))

(* (current - baseline): aligned on the union of both indexes; a cell is   *)
(* missing unless the stratum-week is in both.                             *)
Difference(df, k, c) ==
    LET cur == {r \in Current(df) : StratumWeek(r) = k}
        b   == Baseline(df, k, c)
    IN  IF cur = {} \/ IsNaN(b) THEN NaN
        ELSE LET v == (CHOOSE r \in cur : TRUE)[c]
             IN  Q(v * ValueOf(b).den - ValueOf(b).num, ValueOf(b).den)

AlignedIndex(df) ==
    {StratumWeek(r) : r \in Current(df)} \cup
    {StratumWeek(r) : r \in Reference(df)}

(* Variant: dropna left out.                                              *)
ExcessNoDropna(df) == AlignedIndex(df)

(* .dropna(how='all')                                                      *)
Excess(df) ==
    {k \in AlignedIndex(df) : \E c \in DEATH_COLS : ~IsNaN(Difference(df, k, c))}

(* utils.last_day_of_calenderweek(2020, w): the Sunday that ends ISO week  *)
(* w of 2020, as the day of the year (week 1 ends on 5 January 2020).      *)
last_day_of_calenderweek(year, w) == DAYS_PER_WEEK * w - 2

(* Variant: the mapping without 'f'.                                       *)
SexReplaceNoFemale(sex) ==
    IF sex = "b" THEN "Total" ELSE IF sex = "m" THEN "Male" ELSE sex

(* excess['Sex'].replace({'b': 'Total', 'm': 'Male', 'f': 'Female'})       *)
SexReplace(sex) ==
    IF sex = "b" THEN "Total"
    ELSE IF sex = "m" THEN "Male"
    ELSE IF sex = "f" THEN "Female"
    ELSE sex

(* excess[ISO].replace({'DEUTNP': 'DEU'})                                  *)
IsoReplace(iso) == IF iso = "DEUTNP" THEN "DEU" ELSE iso

DailyAvg(weekly) ==
    IF IsNaN(weekly) THEN NaN
    ELSE Q(ValueOf(weekly).num, ValueOf(weekly).den * DAYS_PER_WEEK)

WeeklyRecords(df) ==
    {[ISO  |-> IsoReplace(k[1]),
      Sex  |-> SexReplace(k[2]),
      Week |-> k[3],
      DATE |-> last_day_of_calenderweek(CURRENT_YEAR, k[3]),
      deaths_excess_weekly_age_0_to_14 |-> Difference(df, k, "D0_14"),
      deaths_excess_weekly             |-> Difference(df, k, "DTotal"),
      deaths_excess_daily_avg |-> DailyAvg(Difference(df, k, "DTotal"))] :
        k \in Excess(df)}

(* Series.bfill(limit): a missing cell takes the next non-missing cell     *)
(* below it when at most limit positions away.                             *)
Bfill(own, lo, hi, limit) ==
    [d \in lo..hi |->
        IF ~IsNaN(own[d]) THEN own[d]
        ELSE LET later == {e \in (d + 1)..hi : ~IsNaN(own[e])}
                 next  == CHOOSE e \in later : \A f \in later : e <= f
             IN  IF later # {} /\ next - d <= limit THEN own[next] ELSE NaN]

MinOf(S) == CHOOSE x \in S : \A y \in S : x <= y

MaxOf(S) == CHOOSE x \in S : \A y \in S : y <= x

(* _resample(grouped_df), followed by the drop/reset_index of get_data:    *)
(* one row per day from six days before the first week end to the last.    *)
_resample(iso, sex, grouped_df) ==
    LET dates    == {r.DATE : r \in grouped_df}
        min_date == MinOf(dates) - WEEK_START_OFFSET
        max_date == MaxOf(dates)
        at(d)    == CHOOSE r \in grouped_df : r.DATE = d
        own(c)   == [d \in min_date..max_date |->
                        IF d \in dates THEN at(d)[c] ELSE NaN]
        filled   == Bfill(own("deaths_excess_daily_avg"), min_date, max_date,
                          BFILL_LIMIT)
    IN  {[ISO  |-> iso,
          Sex  |-> sex,
          DATE |-> d,
          deaths_excess_weekly_age_0_to_14 |->
              own("deaths_excess_weekly_age_0_to_14")[d],
          deaths_excess_weekly    |-> own("deaths_excess_weekly")[d],
          deaths_excess_daily_avg |-> filled[d]] :
            d \in min_date..max_date}

(* HMDExcessMortality.get_data(daily)                                      *)
HMD_get_data(df, daily) ==
    LET excess == WeeklyRecords(df)
        groups == {<<r.ISO, r.Sex>> : r \in excess}
    IN  IF ~daily THEN excess
        ELSE UNION {_resample(g[1], g[2],
                        {r \in excess : r.ISO = g[1] /\ r.Sex = g[2]}) :
                    g \in groups}

-----------------------------------------------------------------------------
(* Bounded inputs.                                                         *)

MaxCalls == 3      \* constructions of Combined in one process

MaxRows == 3       \* rows of a policy table drawn for the interventions merge

Ok(T) == [ok |-> TRUE, rows |-> T]

Down == [ok |-> FALSE, rows |-> <<>>]

PolicyRow(iso, date, s) ==
    [ISO |-> iso, DATE |-> date, CountryName |-> iso, Stringency |-> s]

MaskRow(iso, date, m) == [ISO |-> iso, DATE |-> date, Masks |-> m]

ValRow(iso, date, col, v) ==
    [ISO |-> iso, DATE |-> date] @@ [c \in {col} |-> v]

StaticRow(iso, col, v) == [ISO |-> iso] @@ [c \in {col} |-> v]

EconomistRow(iso, date) ==
    [ISO |-> iso, DATE |-> date, excess_death_daily_avg |-> {date},
     weekly_excess_deaths |-> {7 * date}]

EurostatsRow(iso, date, sex) ==
    [ISO |-> iso, DATE |-> date, SEX |-> sex, AGE |-> "Total",
     excess_mortality |-> {70 * date},
     excess_mortality_daily_average |-> {10 * date}]

(* Interventions merge: every policy table of at most MaxRows rows with    *)
(* distinct keys, in every row order, against a few mask tables.           *)
IntervCountries == {"AAA", "BBB"}

IntervDates == {1, 2, 3}

StringencyCells == {NaN, {10}, {20}}

PolicyRows ==
    {PolicyRow(c, d, s) : c \in IntervCountries, d \in IntervDates,
                          s \in StringencyCells}

RECURSIVE PolicyTables(_)
PolicyTables(n) ==
    IF n = 0 THEN {<<>>}
    ELSE LET shorter  == PolicyTables(n - 1)
             full     == {t \in shorter : Len(t) = n - 1}
             extended == {Append(t, r) : t \in full, r \in PolicyRows}
         IN  shorter \cup {t \in extended : KeysUnique(t, KEY)}

MaskTables ==
    { <<>>,
      << MaskRow("AAA", 1, {1}), MaskRow("BBB", 2, {2}) >>,
      << MaskRow("AAA", 2, {1}), MaskRow("BBB", 1, NaN),
         MaskRow("BBB", 3, {2}) >> }

IntervSources ==
    {[policy |-> Ok(p), mask |-> Ok(m)] :
        p \in PolicyTables(MaxRows), m \in MaskTables}

(* The joins: three countries, one excluded from each mortality provider, *)
(* two dates; every pair of provider coverages; sources with and without   *)
(* repeated keys.                                                          *)
JoinCountries == <<"AAA", "ESP", "AUT">>

JoinDates == <<1, 2>>

KeysOf(countries) ==
    Flatten([i \in 1..Len(JoinCountries) |->
        IF JoinCountries[i] \in countries
        THEN [j \in 1..Len(JoinDates) |-> <<JoinCountries[i], JoinDates[j]>>]
        ELSE <<>>])

JoinPolicies ==
    { <<>>,
      [i \in 1..6 |-> PolicyRow(KeysOf(Range(JoinCountries))[i][1],
                                KeysOf(Range(JoinCountries))[i][2], {10 * i})],
      << PolicyRow("ESP", 2, {20}), PolicyRow("AAA", 1, NaN),
         PolicyRow("AUT", 1, {10}) >>,
      << PolicyRow("AAA", 1, {10}), PolicyRow("AAA", 2, NaN) >>,
      << PolicyRow("AAA", 1, {10}), PolicyRow("AAA", 1, {20}) >> }

JoinMasks ==
    { <<>>, << MaskRow("AAA", 1, {1}), MaskRow("ESP", 2, {2}) >> }

JoinCases ==
    { <<>>,
      [i \in 1..6 |-> ValRow(KeysOf(Range(JoinCountries))[i][1],
                             KeysOf(Range(JoinCountries))[i][2],
                             "new_cases", {i})],
      << ValRow("AAA", 1, "new_cases", {5}),
         ValRow("AAA", 1, "new_cases", {6}) >> }

JoinMobility ==
    { << ValRow("AAA", 1, "retail", {3}), ValRow("AAA", 2, "retail", NaN) >>,
      << ValRow("ESP", 2, "retail", {3}), ValRow("ESP", 2, "retail", {4}) >> }

JoinAges ==
    { << StaticRow("AAA", "median_age", {40}),
         StaticRow("ESP", "median_age", {44}),
         StaticRow("AUT", "median_age", {43}) >>,
      << StaticRow("AAA", "median_age", {40}),
         StaticRow("AAA", "median_age", {41}) >> }

JoinReferences ==
    { <<>>,
      << StaticRow("AAA", "population", {100}),
         StaticRow("ESP", "population", {47}) >> }

EconomistTable(countries) ==
    [i \in 1..Len(KeysOf(countries)) |->
        EconomistRow(KeysOf(countries)[i][1], KeysOf(countries)[i][2])]

EurostatsTable(countries) ==
    Flatten([i \in 1..Len(KeysOf(countries)) |->
        << EurostatsRow(KeysOf(countries)[i][1], KeysOf(countries)[i][2],
                        "Total"),
           EurostatsRow(KeysOf(countries)[i][1], KeysOf(countries)[i][2],
                        "F") >>])

JoinSources ==
    {[policy |-> Ok(p), mask |-> Ok(m), cases |-> Ok(c), mobility |-> Ok(b),
      age |-> Ok(a), reference |-> Ok(r),
      economist |-> Ok(EconomistTable(ec)),
      eurostats |-> Ok(EurostatsTable(eu))] :
        p \in JoinPolicies, m \in JoinMasks, c \in JoinCases,
        b \in JoinMobility, a \in JoinAges, r \in JoinReferences,
        ec \in SUBSET Range(JoinCountries), eu \in SUBSET Range(JoinCountries)}

(* The orchestrator: a healthy upstream, the same upstream after its case  *)
(* counts changed, each adapter unreachable in turn, and both mortality    *)
(* providers covering the same country.                                    *)
BaseSources ==
    [policy    |-> Ok(<< PolicyRow("AAA", 1, {10}), PolicyRow("AAA", 2, NaN),
                         PolicyRow("ESP", 1, {20}) >>),
     mask      |-> Ok(<< MaskRow("AAA", 1, {1}) >>),
     cases     |-> Ok(<< ValRow("AAA", 1, "new_cases", {5}) >>),
     mobility  |-> Ok(<< ValRow("AAA", 2, "retail", {3}) >>),
     age       |-> Ok(<< StaticRow("AAA", "median_age", {40}) >>),
     reference |-> Ok(<< StaticRow("ESP", "population", {47}) >>),
     economist |-> Ok(EconomistTable({"ESP"})),
     eurostats |-> Ok(EurostatsTable({"AAA"}))]

Adapters ==
    {"policy", "mask", "cases", "mobility", "age", "reference", "economist",
     "eurostats"}

OrchSources ==
    { BaseSources,
      [BaseSources EXCEPT
          !.cases = Ok(<< ValRow("AAA", 1, "new_cases", {6}) >>)],
      [BaseSources EXCEPT !.economist = Ok(EconomistTable({"AAA", "ESP"}))] }
    \cup {[BaseSources EXCEPT ![a] = Down] : a \in Adapters}

(* The estimator: one (country, sex) group whose week 1 has a row in any   *)
(* subset of the years from before the window to the current year, whose   *)
(* later weeks are each complete or absent, and a second group of the same *)
(* country and week with another sex label.                                *)
MaxWeek == 3       \* epi weeks of the current year in a raw table

RawRow(iso, sex, week, year, d0_14, dtotal) ==
    [ISO |-> iso, Sex |-> sex, Week |-> week, Year |-> year,
     D0_14 |-> d0_14, DTotal |-> dtotal]

HMDGroups ==
    { <<"DEUTNP", "b">>, <<"FRA", "f">>, <<"FRA", "u">> }

HMDYears == (CURRENT_YEAR - 6)..CURRENT_YEAR

CurrentDeaths == {45, 7}

RefDeaths(y) ==
    IF y < REFERENCE_FROM THEN 90 ELSE 10 * (y - (REFERENCE_FROM - 1))

FocusRows(g, years, cur) ==
    {RawRow(g[1], g[2], 1, y, y - 2010,
            IF y = CURRENT_YEAR THEN cur ELSE RefDeaths(y)) : y \in years}

LaterWeekRows(g, weeks) ==
    UNION {{RawRow(g[1], g[2], w, CURRENT_YEAR - 1, 2, 100 * w),
            RawRow(g[1], g[2], w, CURRENT_YEAR, 4, 100 * w + 14)} :
           w \in weeks}

OtherSex(sex) == IF sex = "b" THEN "m" ELSE "b"

OtherGroupRows(g, kind) ==
    (IF kind \in {"ref", "both"}
     THEN {RawRow(g[1], OtherSex(g[2]), 1, CURRENT_YEAR - 2, 500, 1000)}
     ELSE {}) \cup
    (IF kind \in {"cur", "both"}
     THEN {RawRow(g[1], OtherSex(g[2]), 1, CURRENT_YEAR, 700, 2000)}
     ELSE {})

HMDDatasets ==
    {FocusRows(g, years, cur) \cup LaterWeekRows(g, weeks)
        \cup OtherGroupRows(g, kind) :
        g \in HMDGroups, years \in SUBSET HMDYears, cur \in CurrentDeaths,
        weeks \in SUBSET (2..MaxWeek),
        kind \in {"none", "ref", "cur", "both"}}

-----------------------------------------------------------------------------
(* The interventions reconciler applied to drawn policy and mask tables.   *)

IdleCombined ==
    /\ Combined_data = None
    /\ builds = 0
    /\ ctors = 0
    /\ forcedLater = 0
    /\ completed = 0
    /\ instances = 0

InitInterv ==
    /\ sources \in IntervSources
    /\ IdleCombined
    /\ hmd_data = {}
    /\ result = NoResult

CreateInterventions ==
    /\ result' = [op |-> "_create_interventions_data",
                  table |-> _create_interventions_data(sources.policy.rows,
                                                       sources.mask.rows)]
    /\ UNCHANGED <<sources, Combined_data, builds, ctors, forcedLater,
                   completed, instances, hmd_data>>

NextInterv == CreateInterventions

SpecInterv == InitInterv /\ [][NextInterv]_vars

HasRow(T, iso, date) == \E r \in Range(T) : r.ISO = iso /\ r.DATE = date

RowAt(T, iso, date) == CHOOSE r \in Range(T) : r.ISO = iso /\ r.DATE = date

KeySeq(T) == [i \in 1..Len(T) |-> <<T[i].ISO, T[i].DATE>>]

IntervDone == result.op = "_create_interventions_data"

(* C5: in the interventions table, a cell that is missing after the merge  *)
(* holds the value of the same column at the latest earlier date of the    *)
(* same country that has one, and 0 when the country has no such date.     *)
C5_FillFromLatestEarlierDate ==
    IntervDone =>
        LET M == PolicyMerged(sources.policy.rows, sources.mask.rows)
            O == result.table
        IN  \A m \in Range(M), X \in {"Stringency", "Masks"} :
                IsNaN(m[X]) =>
                    LET earlier == {e \in Range(M) :
                                       /\ e.ISO = m.ISO
                                       /\ e.DATE < m.DATE
                                       /\ ~IsNaN(e[X])}
                        latest == CHOOSE e \in earlier :
                                       \A f \in earlier : f.DATE <= e.DATE
                        o == RowAt(O, m.ISO, m.DATE)
                    IN  /\ HasRow(O, m.ISO, m.DATE)
                        /\ o[X] = IF earlier = {} THEN {0} ELSE latest[X]

(* The case of C6: rows on D and D+2 of one country, none on D+1, a value  *)
(* on D, and an empty mask table.                                          *)
GapCase(c, d) ==
    /\ sources.mask.rows = <<>>
    /\ HasRow(sources.policy.rows, c, d)
    /\ HasRow(sources.policy.rows, c, d + 2)
    /\ ~HasRow(sources.policy.rows, c, d + 1)
    /\ ~IsNaN(RowAt(sources.policy.rows, c, d).Stringency)

(* C6 as stated: with policy rows on D and D+2 only and an empty mask      *)
(* table, the interventions table has a row on D+1 whose Stringency is the *)
(* value of D.                                                             *)
C6_GapDateGetsFilledRow ==
    IntervDone =>
        \A c \in IntervCountries, d \in IntervDates :
            GapCase(c, d) =>
                /\ HasRow(result.table, c, d + 1)
                /\ RowAt(result.table, c, d + 1).Stringency =
                       RowAt(sources.policy.rows, c, d).Stringency

(* C6 amended: in that case the interventions table has exactly the rows   *)
(* of the policy table, in its order: no row on D+1 exists, and the row on *)
(* D keeps its Stringency.                                                 *)
C6_GapDateHasNoRow ==
    IntervDone =>
        \A c \in IntervCountries, d \in IntervDates :
            GapCase(c, d) =>
                /\ ~HasRow(result.table, c, d + 1)
                /\ KeySeq(result.table) = KeySeq(sources.policy.rows)
                /\ RowAt(result.table, c, d).Stringency =
                       RowAt(sources.policy.rows, c, d).Stringency

C6_Witness ==
    /\ IntervDone
    /\ sources.mask.rows = <<>>
    /\ sources.policy.rows =
           << PolicyRow("AAA", 1, {10}), PolicyRow("AAA", 3, {20}) >>
    /\ Len(result.table) = 2

-----------------------------------------------------------------------------
(* The joins and the mortality reconciler applied to drawn sources.        *)

InitJoin ==
    /\ sources \in JoinSources
    /\ IdleCombined
    /\ hmd_data = {}
    /\ result = NoResult

CreateData ==
    /\ result' = [op |-> "_create_data", ret |-> _create_data(sources)]
    /\ UNCHANGED <<sources, Combined_data, builds, ctors, forcedLater,
                   completed, instances, hmd_data>>

ExcessMortalityData ==
    /\ result' = [op |-> "_excess_mortality_data",
                  ret |-> _excess_mortality_data(sources.economist,
                                                 sources.eurostats)]
    /\ UNCHANGED <<sources, Combined_data, builds, ctors, forcedLater,
                   completed, instances, hmd_data>>

NextJoin == CreateData \/ ExcessMortalityData

SpecJoin == InitJoin /\ [][NextJoin]_vars

KeySet(T) == {<<T[i].ISO, T[i].DATE>> : i \in 1..Len(T)}

(* The assumption of C1: no source repeats a key.                          *)
SourcesUnique(s) ==
    /\ KeysUnique(s.policy.rows, KEY)
    /\ KeysUnique(s.mask.rows, KEY)
    /\ KeysUnique(s.cases.rows, KEY)
    /\ KeysUnique(s.mobility.rows, KEY)
    /\ KeysUnique(s.age.rows, {"ISO"})
    /\ KeysUnique(s.reference.rows, {"ISO"})
    /\ KeysUnique(s.economist.rows, KEY)
    /\ KeysUnique(s.eurostats.rows, {"ISO", "DATE", "SEX", "AGE"})

(* C1: when no source repeats a key, the table _create_data returns has    *)
(* exactly the (country, date) pairs of the policy table, each once.       *)
C1_CombinedKeysArePolicyKeys ==
    (result.op = "_create_data" /\ result.ret.ok /\ SourcesUnique(sources)) =>
        /\ KeySet(result.ret.table) = KeySet(sources.policy.rows)
        /\ KeysUnique(result.ret.table, KEY)
        /\ Len(result.ret.table) = Len(sources.policy.rows)

C1_Witness ==
    /\ result.op = "_create_data"
    /\ result.ret.ok
    /\ SourcesUnique(sources)
    /\ Len(result.ret.table) = 6
    /\ \E r \in Range(result.ret.table) : ~IsNaN(r.weekly_excess_deaths)
    /\ \E r \in Range(result.ret.table) : IsNaN(r.weekly_excess_deaths)
    /\ \E r \in Range(result.ret.table) : ~IsNaN(r.population)
    /\ \E r \in Range(result.ret.table) : IsNaN(r.retail)

(* C2: when the providers' country sets still intersect after the          *)
(* exclusions, _excess_mortality_data fails with the duplicate-coverage    *)
(* error (the ValueError of the source) naming the offending codes, and    *)
(* returns a table only when the sets are disjoint.                        *)
C2_DuplicateCoverageNamesCodes ==
    result.op = "_excess_mortality_data" =>
        LET inter == Intersection(EconomistFiltered(sources.economist.rows),
                                  EurostatsFiltered(sources.eurostats.rows))
        IN  IF inter = {} THEN result.ret.ok
            ELSE /\ ~result.ret.ok
                 /\ result.ret.error.type = "ValueError"
                 /\ result.ret.error.codes = inter

-----------------------------------------------------------------------------
(* The process: Combined(force_load) constructions, get_data() calls, and  *)
(* the upstream changing between them.                                     *)

NoError == [type |-> "", adapter |-> "", codes |-> {}]

Init ==
    /\ sources \in OrchSources
    /\ IdleCombined
    /\ hmd_data = {}
    /\ result = NoResult

(* Combined.__init__(force_load)                                           *)
Combined_init(force_load) ==
    /\ ctors < MaxCalls
    /\ LET build == ShouldBuild(Combined_data, force_load)
           r     == _create_data(sources)
           id    == builds + 1
           fails == build /\ ~r.ok
       IN  /\ builds' = IF build THEN builds + 1 ELSE builds
           /\ Combined_data' = CacheAfterInit(Combined_data, build, r, id)
           /\ completed' = IF build /\ r.ok THEN id ELSE completed
           /\ instances' = IF fails THEN instances ELSE instances + 1
           /\ result' = [op |-> "__init__", force_load |-> force_load,
                         ok |-> ~fails,
                         error |-> IF fails THEN r.error ELSE NoError]
    /\ ctors' = ctors + 1
    /\ forcedLater' = IF ctors > 0 /\ force_load THEN forcedLater + 1
                      ELSE forcedLater
    /\ UNCHANGED <<sources, hmd_data>>

(* Combined.get_data(), on an instance some construction returned          *)
Combined_get_data ==
    /\ instances > 0
    /\ result' = [op |-> "get_data", value |-> Combined_data]
    /\ UNCHANGED <<sources, Combined_data, builds, ctors, forcedLater,
                   completed, instances, hmd_data>>

(* The upstream publishes other data, or becomes (un)reachable.            *)
UpstreamChanges ==
    /\ sources' \in OrchSources \ {sources}
    /\ UNCHANGED <<Combined_data, builds, ctors, forcedLater, completed,
                   instances, hmd_data, result>>

Next ==
    \/ \E force_load \in BOOLEAN : Combined_init(force_load)
    \/ Combined_get_data
    \/ UpstreamChanges

Spec == Init /\ [][Next]_vars

(* C3 as stated: _create_data runs once for the first construction and     *)
(* once more for each later construction with force_load=True, and never   *)
(* otherwise.                                                              *)
C3_BuildsAreFirstPlusForced ==
    builds = (IF ctors > 0 THEN 1 ELSE 0) + forcedLater

C3_Step ==
    /\ ctors' = ctors + 1 =>
          LET need == Combined_data = None \/ result'.force_load
          IN  /\ builds' = IF need THEN builds + 1 ELSE builds
              /\ ~need => (Combined_data' = Combined_data /\ result'.ok)
    /\ ctors' = ctors => builds' = builds
    /\ (result'.op = "get_data" /\ ctors' = ctors /\ sources' = sources) =>
          /\ result'.value # None
          /\ result'.value = Combined_data'
          /\ result'.value.id = completed'

(* C3 amended: _create_data runs once for each construction made while no  *)
(* build has completed (the first one, and any that follows only failed    *)
(* builds) and once for each construction with force_load=True, and never  *)
(* otherwise; a construction without force_load on a filled cache leaves   *)
(* the table object in place; get_data() returns the latest completed      *)
(* build.                                                                  *)
C3_BuildsWhenEmptyOrForced == [][C3_Step]_vars

C3_Witness ==
    /\ ctors = 2
    /\ forcedLater = 0
    /\ builds = 2
    /\ completed = 2
    /\ result.op = "get_data"
    /\ result.value.id = 2

(* C4: a construction whose build fails raises that failure and leaves     *)
(* Combined._data exactly as it was; no partial table is assigned.         *)
C4_FailedBuildKeepsCache ==
    [][(/\ ctors' = ctors + 1
        /\ ShouldBuild(Combined_data, result'.force_load)
        /\ ~_create_data(sources).ok)
       => (/\ ~result'.ok
           /\ result'.error = _create_data(sources).error
           /\ Combined_data' = Combined_data
           /\ instances' = instances)]_vars

C4_Witness ==
    /\ result.op = "__init__"
    /\ ~result.ok
    /\ result.force_load
    /\ result.error.type = "UpstreamUnavailable"
    /\ result.error.adapter = "eurostats"
    /\ Combined_data # None
    /\ Combined_data.id = completed
    /\ builds = completed + 1

-----------------------------------------------------------------------------
(* The estimator applied to a loaded raw table.                            *)

InitHMD ==
    /\ sources = [hmd |-> "loaded"]
    /\ IdleCombined
    /\ hmd_data \in HMDDatasets
    /\ result = NoResult

(* HMDExcessMortality().get_data(daily)                                    *)
GetExcessMortality(daily) ==
    /\ result' = [op |-> "get_data", daily |-> daily,
                  table |-> HMD_get_data(hmd_data, daily)]
    /\ UNCHANGED <<sources, Combined_data, builds, ctors, forcedLater,
                   completed, instances, hmd_data>>

NextHMD == \E daily \in BOOLEAN : GetExcessMortality(daily)

SpecHMD == InitHMD /\ [][NextHMD]_vars

RawStrata == {StratumWeek(r) : r \in hmd_data}

RawLabels == {r.Sex : r \in hmd_data}

CurrentRows(k) ==
    {r \in hmd_data : StratumWeek(r) = k /\ r.Year = CURRENT_YEAR}

WindowRows(k) ==
    {r \in hmd_data :
        /\ StratumWeek(r) = k
        /\ r.Year \in (CURRENT_YEAR - 5)..(CURRENT_YEAR - 1)}

(* the record o is the one of raw stratum-week k                           *)
RecordOf(o, k) ==
    /\ o.ISO = (IF k[1] = "DEUTNP" THEN "DEU" ELSE k[1])
    /\ o.Sex \in {k[2], "Total", "Male", "Female"}
    /\ (o.Sex = "Total") = (k[2] = "b")
    /\ (o.Sex = "Male") = (k[2] = "m")
    /\ (o.Sex = "Female") = (k[2] = "f")
    /\ o.DATE = DAYS_PER_WEEK * k[3] - 2
    /\ ~IsNaN(o.deaths_excess_weekly)

EstimatorDone == result.op = "get_data"

(* C7: every excess, in each death-count column, is the current-year value *)
(* minus the mean of that column over the rows of the same stratum-week in *)
(* the five years before the current one.                                  *)
C7_ExcessIsCurrentMinusWindowMean ==
    EstimatorDone =>
        \A o \in result.table :
            ~IsNaN(o.deaths_excess_weekly) =>
                \E k \in RawStrata :
                    /\ RecordOf(o, k)
                    /\ Cardinality(CurrentRows(k)) = 1
                    /\ WindowRows(k) # {}
                    /\ \A c \in DEATH_COLS :
                          LET cell == o[COLUMN_NAMES[c]]
                              n    == Cardinality(WindowRows(k))
                              cur  == (CHOOSE r \in CurrentRows(k) : TRUE)[c]
                          IN  /\ ~IsNaN(cell)
                              /\ ValueOf(cell).den > 0
                              /\ ValueOf(cell).num * n =
                                   (cur * n - SumCol(WindowRows(k), c))
                                       * ValueOf(cell).den

(* reference counts 10..50 (and a row before the window), current 45:      *)
(* excess 15                                                               *)
C7_Witness ==
    /\ EstimatorDone
    /\ ~result.daily
    /\ \E k \in RawStrata :
          /\ k[3] = 1
          /\ {r.DTotal : r \in WindowRows(k)} = {10, 20, 30, 40, 50}
          /\ \E r \in CurrentRows(k) : r.DTotal = 45
          /\ \E r \in hmd_data : StratumWeek(r) = k /\ r.Year < REFERENCE_FROM
          /\ \E o \in result.table :
                /\ RecordOf(o, k)
                /\ ValueOf(o.deaths_excess_weekly).num =
                       15 * ValueOf(o.deaths_excess_weekly).den

(* C8 as stated: in the daily output every day that carries a daily_avg    *)
(* lies within the seven days E-6..E of the week (end date E) whose value  *)
(* it carries.                                                             *)
C8_DailyAvgStaysInsideItsWeek ==
    (EstimatorDone /\ result.daily) =>
        \A o \in result.table :
            ~IsNaN(o.deaths_excess_daily_avg) =>
                \E w \in result.table :
                    /\ w.ISO = o.ISO
                    /\ w.Sex = o.Sex
                    /\ ~IsNaN(w.deaths_excess_weekly)
                    /\ o.DATE \in (w.DATE - 6)..w.DATE
                    /\ o.deaths_excess_daily_avg = w.deaths_excess_daily_avg

(* C9: the weekly output has a record for a stratum-week exactly when it   *)
(* has a current-year row and at least one row in the reference window.    *)
C9_RecordIffCurrentAndReference ==
    (EstimatorDone /\ ~result.daily) =>
        /\ \A k \in RawStrata :
              (\E o \in result.table : RecordOf(o, k) /\ o.Week = k[3])
                  <=> (CurrentRows(k) # {} /\ WindowRows(k) # {})
        /\ \A o \in result.table : \E k \in RawStrata : RecordOf(o, k)

C9_Witness ==
    /\ EstimatorDone
    /\ ~result.daily
    /\ \E k \in RawStrata :
          /\ CurrentRows(k) # {}
          /\ WindowRows(k) = {}
          /\ \E r \in hmd_data : StratumWeek(r) = k /\ r.Year < REFERENCE_FROM
          /\ ~\E o \in result.table : RecordOf(o, k)
    /\ \E k \in RawStrata :
          /\ CurrentRows(k) = {}
          /\ WindowRows(k) # {}
          /\ ~\E o \in result.table : RecordOf(o, k)
    /\ \E k \in RawStrata : \E o \in result.table : RecordOf(o, k)

SEX_VOCABULARY == {"Total", "Male", "Female"}

(* C10 as stated: every record has Sex in {Total, Male, Female}, whatever  *)
(* the raw labels, and none carries the country code DEUTNP.               *)
C10_SexInClosedVocabulary ==
    EstimatorDone =>
        \A o \in result.table :
            o.Sex \in SEX_VOCABULARY /\ o.ISO # "DEUTNP"

(* C10 amended: the raw labels b, m, f are reported as Total, Male, Female *)
(* and never as themselves; any other raw label is passed through          *)
(* unchanged; no record carries DEUTNP.                                    *)
C10_KnownLabelsNormalised ==
    EstimatorDone =>
        /\ \A o \in result.table :
              /\ o.ISO # "DEUTNP"
              /\ o.Sex \notin {"b", "m", "f"}
              /\ o.Sex \in SEX_VOCABULARY \cup (RawLabels \ {"b", "m", "f"})
        /\ \A k \in RawStrata :
              (CurrentRows(k) # {} /\ WindowRows(k) # {}) =>
                  \E o \in result.table :
                      o.Sex = CASE k[2] = "b" -> "Total"
                                [] k[2] = "m" -> "Male"
                                [] k[2] = "f" -> "Female"
                                [] OTHER -> k[2]

C10_Witness ==
    /\ EstimatorDone
    /\ result.daily
    /\ {o.Sex : o \in result.table} = {"Total", "Female"}
    /\ \E r \in hmd_data : r.Sex = "f"

====
